---- MODULE Spec2Model ----
(***************************************************************************)
(* Micro-bookstore: the Controller (REST gateway), the two gRPC backends   *)
(* it calls (Inventory = Catalog Provider, Shipping = Rate Calculator) and *)
(* the browser front-end.                                                  *)
(*                                                                         *)
(* Optional JavaScript values (undefined / null or a value) are sequences  *)
(* of length 0 or 1.  Texts (path parameters, postal codes) are sequences  *)
(* of one-character strings.  Money is counted in cents.                   *)
(***************************************************************************)
EXTENDS Integers, Sequences, FiniteSets, TLC

VARIABLES
  reqs,           \* the HTTP requests the gateway has received, oldest first
  products,       \* the Inventory service's product list
  rateTable,      \* the Shipping service's configuration: postal code -> cost
  page,           \* the front-end page: "init", "loading", "rendered", "failed"
  cards,          \* the book cards appended to .books
  globalZipcode,  \* what the global identifier zipcode is bound to in the page
  swal,           \* the notification shown last
  lastClick       \* the Calculate Shipping click handled last

backendVars == <<products, rateTable>>
clientVars == <<page, cards, globalZipcode, swal, lastClick>>
vars == <<reqs, products, rateTable, page, cards, globalZipcode, swal, lastClick>>

(* ---------------------------- bounds ----------------------------------- *)

\* number of HTTP requests the gateway receives in one run
MaxReq == 3

(* ------------------------- input domains -------------------------------- *)

Undefined == <<>>
Some(v) == <<v>>

\* postal code texts a client sends, one well formed and one malformed
Zips == { <<"3","0","1","3","0","-","0","0","0">>, <<"a","b","c">> }

\* :id path parameters a client sends, one present in the catalog, one not
IdParams == { <<"2">>, <<"9","9","9">> }

\* shipping costs (cents) a Rate Calculator configuration can assign
Costs == {0, 1550}

\* failures with which a gRPC stub can call back (status code, details)
Errors == { [code |-> 14, details |-> "UNAVAILABLE: connect ECONNREFUSED 127.0.0.1:3001"],
            [code |-> 13, details |-> "INTERNAL: at Object.callback (index.js:22:9)"] }

(* --------------------------- Inventory ---------------------------------- *)

\* products.json: the three books of the store
InitialProducts ==
  << [id |-> 1, name |-> "Design Patterns", quantity |-> 1, price |-> 5999,
      photo |-> "/img/design-patterns.png", author |-> "Erich Gamma"],
     [id |-> 2, name |-> "Refactoring", quantity |-> 2, price |-> 7999,
      photo |-> "/img/refactoring.png", author |-> "Martin Fowler"],
     [id |-> 3, name |-> "Clean Code", quantity |-> 5, price |-> 4999,
      photo |-> "/img/clean-code.png", author |-> "Robert Martin"] >>

\* ListAll: every loaded product, in load order, wrapped as ProductsResponse
SearchAllProducts(catalog) == Some([products |-> catalog])

\* Array.prototype.find: the first element satisfying the test, or undefined
RECURSIVE find(_, _)
find(list, id) ==
  IF list = <<>> THEN Undefined
  ELSE IF Head(list).id = id THEN Some(Head(list))
  ELSE find(Tail(list), id)

\* callback(null, products.find((product) => product.id == payload.request.id))
SearchProductByID(catalog, id) == find(catalog, id)

DigitValue(c) ==
  CASE c = "0" -> 0 [] c = "1" -> 1 [] c = "2" -> 2 [] c = "3" -> 3 [] c = "4" -> 4
    [] c = "5" -> 5 [] c = "6" -> 6 [] c = "7" -> 7 [] c = "8" -> 8 [] c = "9" -> 9
    [] OTHER -> -1

RECURSIVE DecimalValue(_, _)
DecimalValue(text, acc) ==
  IF text = <<>> THEN acc
  ELSE IF DigitValue(Head(text)) < 0 THEN -1
  ELSE DecimalValue(Tail(text), acc * 10 + DigitValue(Head(text)))

\* Payload { int32 id = 1; }: the :id text becomes an int32, 0 when it is
\* not a number (the texts of IdParams are far below the int32 range)
ToInt32(text) ==
  LET n == DecimalValue(text, 0) IN IF n < 0 THEN 0 ELSE n

(* ---------------------------- Shipping ---------------------------------- *)

\* Quote: the cost the Rate Calculator's configuration assigns to the code
GetShippingRate(table, zipcode) == Some([value |-> table[zipcode]])

(* ------------------------------ gRPC ------------------------------------ *)

\* a stub calls back once, with the service's result or with a failure
StubOutcomes(result) ==
  { [err |-> Undefined, data |-> result] } \cup
  { [err |-> Some(e), data |-> Undefined] : e \in Errors }

\* every way a Node callback (err, data) can be called: err null or an
\* error, data undefined or a result
AnyOutcomes(result) ==
  { [err |-> e, data |-> d] :
      e \in { Undefined } \cup { Some(x) : x \in Errors },
      d \in { Undefined, result } }

(* ---------------------------- Controller -------------------------------- *)

GenericError == [kind |-> "error", error |-> "something failed :("]

\* res.json(x): JSON text of x, an empty body when x is undefined
Json(kind, x) == IF x = Undefined THEN [kind |-> "empty"] ELSE [kind |-> kind, json |-> x[1]]

\* reading a property of undefined: the callback throws before it answers
TypeError == [threw |-> TRUE]
Threw(resp) == "threw" \in DOMAIN resp

\* ProductsHandler with the list cut to the page size 2 before it is sent
ProductsHandlerPaged(err, data) ==
  IF err # Undefined
  THEN [status |-> 500, body |-> GenericError, logged |-> err]
  ELSE [status |-> 200,
        body |-> Json("list", Some(SubSeq(data[1].products, 1, 2))),
        logged |-> Undefined]

\* ProductsHandler without the console.error(err) of its error branch
ProductsHandlerSilent(err, data) ==
  IF err # Undefined
  THEN [status |-> 500, body |-> GenericError, logged |-> Undefined]
  ELSE [status |-> 200, body |-> Json("list", Some(data[1].products)), logged |-> Undefined]

\* callback of inventory.SearchAllProducts in app.get('/products')
ProductsHandler(err, data) ==
  IF err # Undefined
  THEN [status |-> 500, body |-> GenericError, logged |-> err]
  ELSE IF data = Undefined
  THEN TypeError
  ELSE [status |-> 200, body |-> Json("list", Some(data[1].products)), logged |-> Undefined]

IsDigit(c) == DigitValue(c) >= 0

\* ShippingHandler echoing the postal code with its non-digits removed
ShippingHandlerDigitsOnly(zipcode, err, data) ==
  IF err # Undefined
  THEN [status |-> 500, body |-> GenericError, logged |-> err]
  ELSE [status |-> 200,
        body |-> Json("quote", Some([cep |-> SelectSeq(zipcode, IsDigit),
                                     value |-> data[1].value])),
        logged |-> Undefined]

\* ShippingHandler reading a field the result does not have (data.price):
\* JSON leaves a key whose value is undefined out of the body
ShippingHandlerWrongField(zipcode, err, data) ==
  IF err # Undefined
  THEN [status |-> 500, body |-> GenericError, logged |-> err]
  ELSE [status |-> 200, body |-> Json("quote", Some([cep |-> zipcode])),
        logged |-> Undefined]

\* callback of shipping.GetShippingRate in app.get('/shipping/:zipcode')
ShippingHandler(zipcode, err, data) ==
  IF err # Undefined
  THEN [status |-> 500, body |-> GenericError, logged |-> err]
  ELSE IF data = Undefined
  THEN TypeError
  ELSE [status |-> 200,
        body |-> Json("quote", Some([cep |-> zipcode, value |-> data[1].value])),
        logged |-> Undefined]

\* ProductHandler sending the error without the 500 status
ProductHandlerNoStatus(err, product) ==
  IF err # Undefined
  THEN [status |-> 200, body |-> GenericError, logged |-> err]
  ELSE [status |-> 200, body |-> Json("product", product), logged |-> Undefined]

\* ProductHandler sending the backend's error text to the client
ProductHandlerLeaking(err, product) ==
  IF err # Undefined
  THEN [status |-> 500, body |-> [kind |-> "error", error |-> err[1].details],
        logged |-> err]
  ELSE [status |-> 200, body |-> Json("product", product), logged |-> Undefined]

\* callback of inventory.SearchProductByID in app.get('/product/:id')
ProductHandler(err, product) ==
  IF err # Undefined
  THEN [status |-> 500, body |-> GenericError, logged |-> err]
  ELSE [status |-> 200, body |-> Json("product", product), logged |-> Undefined]

NoCalls == [inventory |-> 0, shipping |-> 0]

\* a request whose handler has called its backend and awaits the callback
NewRequest(origin, route, param, calls) ==
  [origin |-> origin, route |-> route, param |-> param, phase |-> "waiting",
   calls |-> calls, err |-> Undefined, data |-> Undefined,
   response |-> Undefined, logged |-> Undefined, consumed |-> FALSE]

\* the callback has run for (out.err, out.data): the request is answered,
\* or left without an answer when the callback threw
Respond(r, out, resp) ==
  IF Threw(resp)
  THEN [r EXCEPT !.phase = "threw", !.err = out.err, !.data = out.data]
  ELSE [r EXCEPT !.phase = "done", !.err = out.err, !.data = out.data,
                 !.response = Append(@, [status |-> resp.status, body |-> resp.body]),
                 !.logged = resp.logged]

\* app.get('/products', ...): calls inventory.SearchAllProducts(null, cb)
GetProducts(origin) ==
  /\ Len(reqs) < MaxReq
  /\ reqs' = Append(reqs, NewRequest(origin, "products", <<>>,
                                     [NoCalls EXCEPT !.inventory = @ + 1]))
  /\ UNCHANGED <<backendVars, clientVars>>

\* GetShipping that also asks the Inventory service before quoting
GetShippingWithStockCheck(origin, zipcode) ==
  /\ Len(reqs) < MaxReq
  /\ reqs' = Append(reqs, NewRequest(origin, "shipping", zipcode,
                                     [inventory |-> 1, shipping |-> 1]))
  /\ UNCHANGED <<backendVars, clientVars>>

\* app.get('/shipping/:zipcode', ...): calls shipping.GetShippingRate({zipcode}, cb)
GetShipping(origin, zipcode) ==
  /\ Len(reqs) < MaxReq
  /\ reqs' = Append(reqs, NewRequest(origin, "shipping", zipcode,
                                     [NoCalls EXCEPT !.shipping = @ + 1]))
  /\ UNCHANGED <<backendVars, clientVars>>

\* app.get('/product/:id', ...): calls inventory.SearchProductByID({id}, cb)
GetProduct(origin, id) ==
  /\ Len(reqs) < MaxReq
  /\ reqs' = Append(reqs, NewRequest(origin, "product", id,
                                     [NoCalls EXCEPT !.inventory = @ + 1]))
  /\ UNCHANGED <<backendVars, clientVars>>

Waiting(i, route) == reqs[i].route = route /\ reqs[i].phase = "waiting"

ProductsCallback(i) ==
  /\ Waiting(i, "products")
  /\ \E out \in StubOutcomes(SearchAllProducts(products)) :
       reqs' = [reqs EXCEPT ![i] = Respond(@, out, ProductsHandler(out.err, out.data))]
  /\ UNCHANGED <<backendVars, clientVars>>

\* the callback of /products run on any (err, data) pair
ProductsCallbackAny(i) ==
  /\ Waiting(i, "products")
  /\ \E out \in AnyOutcomes(SearchAllProducts(products)) :
       reqs' = [reqs EXCEPT ![i] = Respond(@, out, ProductsHandler(out.err, out.data))]
  /\ UNCHANGED <<backendVars, clientVars>>

\* ShippingCallback replaced by a timer that answers 500 for a request whose
\* callback has not fired
ShippingCallbackTimeout(i) ==
  /\ Waiting(i, "shipping")
  /\ reqs[i].response = Undefined
  /\ reqs' = [reqs EXCEPT ![i].response = Append(@, [status |-> 500, body |-> GenericError])]
  /\ UNCHANGED <<backendVars, clientVars>>

\* ShippingCallback reading the postal code from a variable shared by the
\* requests, which holds the code of the request received last
ShippingCallbackSharedZip(i) ==
  /\ Waiting(i, "shipping")
  /\ \E out \in StubOutcomes(GetShippingRate(rateTable, reqs[i].param)) :
       reqs' = [reqs EXCEPT ![i] =
                  Respond(@, out, ShippingHandler(reqs[Len(reqs)].param, out.err, out.data))]
  /\ UNCHANGED <<backendVars, clientVars>>

\* ShippingCallback with a backend that draws the cost anew on every call
ShippingCallbackRandom(i) ==
  /\ Waiting(i, "shipping")
  /\ \E c \in Costs : \E out \in StubOutcomes(Some([value |-> c])) :
       reqs' = [reqs EXCEPT ![i] =
                  Respond(@, out, ShippingHandler(reqs[i].param, out.err, out.data))]
  /\ UNCHANGED <<backendVars, clientVars>>

ShippingCallback(i) ==
  /\ Waiting(i, "shipping")
  /\ \E out \in StubOutcomes(GetShippingRate(rateTable, reqs[i].param)) :
       reqs' = [reqs EXCEPT ![i] =
                  Respond(@, out, ShippingHandler(reqs[i].param, out.err, out.data))]
  /\ UNCHANGED <<backendVars, clientVars>>

\* the callback of /shipping/:zipcode run on any (err, data) pair
ShippingCallbackAny(i) ==
  /\ Waiting(i, "shipping")
  /\ \E out \in AnyOutcomes(GetShippingRate(rateTable, reqs[i].param)) :
       reqs' = [reqs EXCEPT ![i] =
                  Respond(@, out, ShippingHandler(reqs[i].param, out.err, out.data))]
  /\ UNCHANGED <<backendVars, clientVars>>

ProductCallback(i) ==
  /\ Waiting(i, "product")
  /\ \E out \in StubOutcomes(SearchProductByID(products, ToInt32(reqs[i].param))) :
       reqs' = [reqs EXCEPT ![i] = Respond(@, out, ProductHandler(out.err, out.data))]
  /\ UNCHANGED <<backendVars, clientVars>>

\* the callback of /product/:id run on any (err, data) pair
ProductCallbackAny(i) ==
  /\ Waiting(i, "product")
  /\ \E out \in AnyOutcomes(SearchProductByID(products, ToInt32(reqs[i].param))) :
       reqs' = [reqs EXCEPT ![i] = Respond(@, out, ProductHandler(out.err, out.data))]
  /\ UNCHANGED <<backendVars, clientVars>>

(* ---------------------------- Front-end --------------------------------- *)

\* Number.prototype.toFixed(2) of an amount counted in cents
toFixed2(cents) == [whole |-> cents \div 100, frac |-> cents % 100]

\* newBook(book): the card of one book; the stock shown is the literal 5
newBook(book) ==
  [id |-> book.id, photo |-> book.photo, name |-> book.name, author |-> book.author,
   price |-> toFixed2(book.price), stock |-> 5]

RECURSIVE forEachNewBook(_)
forEachNewBook(data) ==
  IF data = <<>> THEN <<>> ELSE <<newBook(Head(data))>> \o forEachNewBook(Tail(data))

\* Response.ok
Ok(status) == status >= 200 /\ status <= 299

ListError == [title |-> "error", text |-> "error while listing products", icon |-> "error"]
ShippingError == [title |-> "error", text |-> "error while accessing shipping", icon |-> "error"]
ShippingSuccess(value) ==
  [title |-> "shipping", text |-> "The shipping cost is: US$", amount |-> toFixed2(value),
   icon |-> "success"]
BuySuccess ==
  [title |-> "Book purchase", text |-> "Your purchase was successfully completed",
   icon |-> "success"]

\* the texts a user can have typed in a card's ZIP input
InputTexts == Zips \cup { <<>> }

\* the response of a fetch of this page is there and its promise chain has not run
Fetched(i, route) ==
  /\ reqs[i].origin = "browser"
  /\ reqs[i].route = route
  /\ reqs[i].phase = "done"
  /\ ~reqs[i].consumed

\* DOMContentLoaded: fetch('http://localhost:3000/products'); the document
\* that has loaded decides whether the global name zipcode is bound
DOMContentLoaded ==
  /\ page = "init"
  /\ Len(reqs) < MaxReq
  /\ reqs' = Append(reqs, NewRequest("browser", "products", <<>>,
                                     [NoCalls EXCEPT !.inventory = @ + 1]))
  /\ page' = "loading"
  /\ globalZipcode' \in { Undefined } \cup { Some(z) : z \in Zips }
  /\ UNCHANGED <<backendVars, cards, swal, lastClick>>

\* the .then/.then/.catch chain of the products fetch
ListFetched(i) ==
  /\ Fetched(i, "products")
  /\ LET resp == reqs[i].response[1] IN
       IF Ok(resp.status) /\ resp.body.kind = "list"
       THEN /\ cards' = cards \o forEachNewBook(resp.body.json)
            /\ page' = "rendered"
            /\ swal' = swal
       ELSE /\ swal' = Some(ListError)
            /\ page' = "failed"
            /\ cards' = cards
  /\ reqs' = [reqs EXCEPT ![i].consumed = TRUE]
  /\ UNCHANGED <<backendVars, globalZipcode, lastClick>>

\* calculateShipping(id, cep): the URL is built from the free name zipcode,
\* not from the parameter cep; an unbound name throws a ReferenceError
\* before fetch is called
calculateShipping(id, cep) ==
  IF globalZipcode = Undefined
  THEN [threw |-> TRUE, sent |-> Undefined]
  ELSE [threw |-> FALSE, sent |-> Some(globalZipcode[1])]

\* click on .button-shipping of card c whose ZIP input holds the text input
ShippingClick(c, input) ==
  /\ page = "rendered"
  /\ LET id == cards[c].id
         zipcode == input
         call == calculateShipping(id, zipcode)
     IN /\ lastClick' = Some([card |-> id, input |-> zipcode,
                              threw |-> call.threw, sent |-> call.sent])
        /\ IF call.sent = Undefined
           THEN reqs' = reqs
           ELSE /\ Len(reqs) < MaxReq
                /\ reqs' = Append(reqs, NewRequest("browser", "shipping", call.sent[1],
                                                   [NoCalls EXCEPT !.shipping = @ + 1]))
  /\ UNCHANGED <<backendVars, page, cards, globalZipcode, swal>>

\* ShippingFetched without the .catch: a rejected chain shows nothing
ShippingFetchedNoCatch(i) ==
  /\ Fetched(i, "shipping")
  /\ LET resp == reqs[i].response[1] IN
       IF Ok(resp.status) /\ resp.body.kind = "quote"
       THEN swal' = Some(ShippingSuccess(resp.body.json.value))
       ELSE swal' = swal
  /\ reqs' = [reqs EXCEPT ![i].consumed = TRUE]
  /\ UNCHANGED <<backendVars, page, cards, globalZipcode, lastClick>>

\* the .then/.then/.catch chain of calculateShipping's fetch
ShippingFetched(i) ==
  /\ Fetched(i, "shipping")
  /\ LET resp == reqs[i].response[1] IN
       IF Ok(resp.status) /\ resp.body.kind = "quote"
       THEN swal' = Some(ShippingSuccess(resp.body.json.value))
       ELSE swal' = Some(ShippingError)
  /\ reqs' = [reqs EXCEPT ![i].consumed = TRUE]
  /\ UNCHANGED <<backendVars, page, cards, globalZipcode, lastClick>>

\* BuyClick asking the store to take the book bought out of the stock
BuyClickDecrementing(c) ==
  /\ page = "rendered"
  /\ swal' = Some(BuySuccess)
  /\ products' = [products EXCEPT ![c].quantity = @ - 1]
  /\ UNCHANGED <<reqs, rateTable, page, cards, globalZipcode, lastClick>>

\* click on .button-buy of a card
BuyClick(c) ==
  /\ page = "rendered"
  /\ swal' = Some(BuySuccess)
  /\ UNCHANGED <<reqs, backendVars, page, cards, globalZipcode, lastClick>>

(* ------------------------- specification -------------------------------- *)

Init ==
  /\ reqs = <<>>
  /\ products = InitialProducts
  /\ rateTable \in [Zips -> Costs]
  /\ page = "init"
  /\ cards = <<>>
  /\ globalZipcode = Undefined
  /\ swal = Undefined
  /\ lastClick = Undefined

Next ==
  \/ GetProducts("http")
  \/ \E z \in Zips : GetShipping("http", z)
  \/ \E id \in IdParams : GetProduct("http", id)
  \/ \E i \in 1..Len(reqs) : ProductsCallback(i)
  \/ \E i \in 1..Len(reqs) : ShippingCallback(i)
  \/ \E i \in 1..Len(reqs) : ProductCallback(i)

\* the gateway and its backends, called by any HTTP client
Spec == Init /\ [][Next]_vars

\* some pending callback fires
Callbacks ==
  \E i \in 1..Len(reqs) : ProductsCallback(i) \/ ShippingCallback(i) \/ ProductCallback(i)

\* Spec with backends that answer every call: the event loop runs the
\* callback of a call once its reply or its failure has arrived
SpecFair == Init /\ [][Next]_vars /\ WF_vars(Callbacks)

NextAny ==
  \/ GetProducts("http")
  \/ \E z \in Zips : GetShipping("http", z)
  \/ \E id \in IdParams : GetProduct("http", id)
  \/ \E i \in 1..Len(reqs) : ProductsCallbackAny(i)
  \/ \E i \in 1..Len(reqs) : ShippingCallbackAny(i)
  \/ \E i \in 1..Len(reqs) : ProductCallbackAny(i)

\* the gateway's callbacks run on every (err, data) pair
SpecAny == Init /\ [][NextAny]_vars

NextUI ==
  \/ DOMContentLoaded
  \/ \E id \in IdParams : GetProduct("http", id)
  \/ \E i \in 1..Len(reqs) : ProductsCallback(i)
  \/ \E i \in 1..Len(reqs) : ShippingCallback(i)
  \/ \E i \in 1..Len(reqs) : ProductCallback(i)
  \/ \E i \in 1..Len(reqs) : ListFetched(i)
  \/ \E c \in 1..Len(cards) : \E input \in InputTexts : ShippingClick(c, input)
  \/ \E i \in 1..Len(reqs) : ShippingFetched(i)
  \/ \E c \in 1..Len(cards) : BuyClick(c)

\* the store's page open in a browser, which sends the list-products and
\* get-shipping-quote requests, next to an HTTP client of /product/:id
SpecUI == Init /\ [][NextUI]_vars

(* ------------------------------ claims ---------------------------------- *)

Done(i, route) == reqs[i].route = route /\ reqs[i].phase = "done"
Succeeded(i) == reqs[i].err = Undefined
Failed(i) == reqs[i].err # Undefined
Status(i) == reqs[i].response[1].status
Body(i) == reqs[i].response[1].body
ReqIds == 1..Len(reqs)
MalformedZip == <<"a","b","c">>
CatalogIds == { products[k].id : k \in 1..Len(products) }

\* C1: every get-shipping-quote request whose Rate Calculator call succeeded
\* was answered 200 with cep equal to the request's path parameter, character
\* for character, and value equal to the value the backend returned.
C1_ShippingEchoesPostalCode ==
  \A i \in ReqIds :
    (Done(i, "shipping") /\ Succeeded(i)) =>
      /\ Status(i) = 200
      /\ Body(i).kind = "quote"
      /\ Body(i).json.cep = reqs[i].param
      /\ Body(i).json.value = reqs[i].data[1].value

C1_Witness ==
  \E i \in ReqIds :
    /\ Done(i, "shipping") /\ Succeeded(i)
    /\ reqs[i].param \in Zips \ {MalformedZip}
    /\ Body(i).json.cep = reqs[i].param

\* C2: every list-products request whose Catalog Provider call succeeded was
\* answered 200 with exactly the product sequence the backend returned: same
\* length, same elements, same order.
C2_ProductsPassedThrough ==
  \A i \in ReqIds :
    (Done(i, "products") /\ Succeeded(i)) =>
      /\ Status(i) = 200
      /\ Body(i).kind = "list"
      /\ Len(Body(i).json) = Len(reqs[i].data[1].products)
      /\ \A k \in 1..Len(Body(i).json) : Body(i).json[k] = reqs[i].data[1].products[k]

C2_Witness ==
  \E i \in ReqIds :
    /\ Done(i, "products") /\ Succeeded(i)
    /\ Len(Body(i).json) = 3
    /\ [k \in 1..3 |-> Body(i).json[k].id] = <<1, 2, 3>>

\* C3: on every route, a request whose backend call failed was answered with
\* status 500 and a body that has the one field error, a string; it was not
\* answered 200 and the body carries no success payload.
C3_FailureIs500WithErrorBody ==
  \A i \in ReqIds :
    (reqs[i].phase = "done" /\ Failed(i)) =>
      /\ Status(i) = 500
      /\ Body(i).kind = "error"
      /\ DOMAIN Body(i) = {"kind", "error"}
      /\ Body(i).error \in STRING

C3_Witness ==
  \E i, j \in ReqIds :
    /\ Done(i, "products") /\ Failed(i) /\ Status(i) = 500
    /\ Done(j, "shipping") /\ Failed(j) /\ Status(j) = 500

\* C4: the answer to a failed request does not depend on the backend error:
\* any two failed requests, on any routes and with any errors, were answered
\* with the same status and the same body.
C4_ErrorResponseIndependentOfError ==
  \A i, j \in ReqIds :
    (reqs[i].phase = "done" /\ Failed(i) /\ reqs[j].phase = "done" /\ Failed(j)) =>
      reqs[i].response = reqs[j].response

C4_Witness ==
  \E i, j \in ReqIds :
    /\ reqs[i].phase = "done" /\ Failed(i)
    /\ reqs[j].phase = "done" /\ Failed(j)
    /\ reqs[i].err # reqs[j].err
    /\ reqs[i].route # reqs[j].route
    /\ reqs[i].response = reqs[j].response

\* C5: every request has caused exactly one backend call, to the backend of
\* its route: list-products and get-product-by-id to the Inventory service
\* only, get-shipping-quote to the Shipping service only; the one call is
\* outstanding until the request is answered.
C5_OneBackendCallPerRequest ==
  \A i \in ReqIds :
    /\ reqs[i].calls.inventory + reqs[i].calls.shipping = 1
    /\ reqs[i].route \in {"products", "product"} => reqs[i].calls.inventory = 1
    /\ reqs[i].route = "shipping" => reqs[i].calls.shipping = 1
    /\ reqs[i].phase = "waiting" <=> reqs[i].response = Undefined

C5_Witness ==
  \E i, j, k \in ReqIds :
    /\ Done(i, "products") /\ Done(j, "shipping") /\ reqs[k].route = "product"
    /\ reqs[k].phase = "waiting"

\* C6: a get-product-by-id request for an id that is not in the catalog is
\* answered 404, and a 500 is sent only when the backend call failed.
C6_MissingProductIs404 ==
  \A i \in ReqIds :
    Done(i, "product") =>
      /\ (ToInt32(reqs[i].param) \notin CatalogIds /\ Succeeded(i)) => Status(i) = 404
      /\ Status(i) = 500 => Failed(i)

\* C7: SearchProductByID answers an id of the catalog with the product of that
\* id and an id that is not in the catalog with a NotFound error, never with
\* an absent product and no error.
C7_FindByIdSignalsNotFound ==
  \A i \in ReqIds :
    Done(i, "product") =>
      /\ (ToInt32(reqs[i].param) \in CatalogIds /\ Succeeded(i)) =>
           (reqs[i].data # Undefined /\ reqs[i].data[1].id = ToInt32(reqs[i].param))
      /\ ToInt32(reqs[i].param) \notin CatalogIds => Failed(i)

\* C8: no step changes the product list, which stays what it was at start-up,
\* quantities included; a Buy click sends no request to the gateway.
C8_CatalogNeverChanges ==
  /\ [](products = InitialProducts)
  /\ [][(swal' # swal /\ swal' = Some(BuySuccess)) => reqs' = reqs]_vars

C8_Witness ==
  /\ swal = Some(BuySuccess)
  /\ \E i, j, k \in ReqIds :
       Done(i, "products") /\ Done(j, "shipping") /\ Done(k, "product")

BrowserAnswered(i) ==
  reqs[i].origin = "browser" /\ reqs[i].phase = "done" /\ ~reqs[i].consumed

C12_ResponseBuiltFromOwnRequest ==
  [][\A i \in ReqIds :
       (reqs[i].phase = "waiting" /\ reqs'[i].phase # "waiting") =>
         /\ \A j \in ReqIds \ {i} : reqs'[j] = reqs[j]
         /\ reqs'[i].param = reqs[i].param
         /\ (reqs[i].route = "shipping" /\ reqs'[i].err = Undefined) =>
              /\ reqs'[i].response[1].body.json.cep = reqs[i].param
              /\ reqs'[i].response[1].body.json.value = reqs'[i].data[1].value]_vars

C12_Witness ==
  /\ Len(reqs) >= 2
  /\ reqs[1].route = "shipping" /\ reqs[1].phase = "waiting"
  /\ Done(2, "shipping") /\ Succeeded(2)
  /\ reqs[1].param # reqs[2].param
  /\ Body(2).json.cep = reqs[2].param

\* C15: a click on Calculate Shipping of a card sends exactly one
\* GET /shipping/<Z> whose Z is the text in that card's ZIP input.
C15_ClickRequestsCardZip ==
  lastClick # Undefined =>
    /\ ~lastClick[1].threw
    /\ lastClick[1].sent = Some(lastClick[1].input)

\* C16: a request has an error logged exactly when it was answered 500, the
\* error logged is the backend's error of that request, and both happen in
\* the step of the callback; a request answered after a successful call has
\* nothing logged.
C16_Logged500Together ==
  \A i \in ReqIds :
    /\ (reqs[i].logged # Undefined) <=> (reqs[i].response # Undefined /\ Status(i) = 500)
    /\ reqs[i].logged # Undefined => (Failed(i) /\ reqs[i].logged = reqs[i].err)
    /\ (reqs[i].phase # "waiting" /\ Failed(i)) => reqs[i].logged = reqs[i].err

C16_Witness ==
  \E i, j, k \in ReqIds :
    /\ Done(i, "products") /\ Failed(i) /\ Status(i) = 500 /\ reqs[i].logged = reqs[i].err
    /\ Done(j, "shipping") /\ Failed(j) /\ Status(j) = 500 /\ reqs[j].logged = reqs[j].err
    /\ reqs[k].phase = "done" /\ Succeeded(k) /\ reqs[k].logged = Undefined

\* C13: whatever (err, data) the callback of a request was called with, err
\* and data both absent included, the request has exactly one answer: 500
\* when err was present, 200 otherwise.
C13_OneResponsePerOutcome ==
  \A i \in ReqIds :
    reqs[i].phase # "waiting" =>
      /\ Len(reqs[i].response) = 1
      /\ Status(i) = IF Failed(i) THEN 500 ELSE 200

\* C14: a request has no answer while its callback has not fired, an answer
\* appears only in the step in which the callback fires (there is no timeout
\* that answers a waiting request), and when the backends answer every call,
\* every request received is eventually answered: from some point on no
\* request is left without its answer.
C14_AnswerOnlyAndAlwaysAfterCallback ==
  /\ [](\A i \in ReqIds : reqs[i].phase = "waiting" => reqs[i].response = Undefined)
  /\ [][\A i \in ReqIds :
          reqs'[i].response # reqs[i].response =>
            (reqs[i].phase = "waiting" /\ reqs'[i].phase = "done"
             /\ Len(reqs'[i].response) = 1)]_vars
  /\ <>[](\A i \in ReqIds : reqs[i].response # Undefined)

C14_Witness ==
  \E i, j \in ReqIds :
    /\ i < j
    /\ reqs[i].phase = "waiting" /\ reqs[i].response = Undefined
    /\ reqs[j].phase = "done" /\ reqs[j].response # Undefined

====
